---- MODULE Spec2Model ----
(***************************************************************************)
(* Verification model of archivist-desktop (src-tauri).                    *)
(*                                                                         *)
(*  - the Backup Daemon (services/backup_daemon.rs): the main loop, the    *)
(*    per-manifest state machine, automatic and manual retry, the trigger  *)
(*    channel and the daemon state file;                                   *)
(*  - the Sync Engine (services/sync.rs): watcher events, the upload       *)
(*    queue, CID mappings, tombstones and manifest authoring;              *)
(*  - the manifest command, the Manifest Registry and the backup           *)
(*    notification task (commands/sync.rs, lib.rs);                        *)
(*  - the manifest discovery server (services/manifest_server.rs);         *)
(*  - the media download queue (services/media_download.rs);               *)
(*  - the node supervisor and its health monitor (services/node.rs).       *)
(***************************************************************************)
EXTENDS Integers, Sequences, FiniteSets, TLC

(***************************************************************************)
(* Bounds of the model.                                                    *)
(***************************************************************************)
\* infrastructure faults (manifest fetch/decode error, save_state error)
\* the environment may inject in one run
MaxFaults == 2
\* manual retry commands issued in one run
MaxManualRetries == 1
\* process crashes in one run
MaxCrashes == 1
\* trigger requests sent to POST /trigger in one run
MaxTriggers == 1
\* file system changes the user makes in one run
MaxFsOps == 2
\* events waiting in the sync event channel
MaxEvents == 2
\* manifest sequence numbers a folder hands out in one run
MaxSequence == 2
MaxRequests == 2
MaxNodeOps == 2
MaxDeaths == 2
\* download tasks queued in one run of the media download service
MaxTasks == 3

(***************************************************************************)
(* Configuration of the daemon (BackupDaemon::new parameters).             *)
(***************************************************************************)
max_retries == 1
max_concurrent_downloads == 1
\* capacity of the trigger channel, mpsc::channel(10)
TriggerCapacity == 10

(***************************************************************************)
(* Configuration of the sync engine.                                       *)
(***************************************************************************)
\* changes after which process_queue authors a manifest (set_manifest_threshold)
manifest_update_threshold == 2
\* files process_queue uploads per tick
batch_size == 5

\* node configuration (NodeConfig)
max_restart_attempts == 2

\* media downloads running at once (MediaDownloadService::new parameter)
max_concurrent == 1

(***************************************************************************)
(* The manifests the source peers can serve.  A manifest is content        *)
(* addressed: its CID determines its contents (struct ManifestFile).       *)
(***************************************************************************)
NoCid == "none"
ManifestCids == {"m1", "m2"}

ManifestFile(cid) ==
    IF cid = "m1"
    THEN [source_peer_id |-> "PA", folder_id |-> "F1", sequence_number |-> 1,
          manifest_cid |-> NoCid,
          files |-> <<"a", "b">>, deleted_files |-> <<>>]
    ELSE IF cid = "m2"
    THEN [source_peer_id |-> "PA", folder_id |-> "F1", sequence_number |-> 2,
          manifest_cid |-> NoCid,
          files |-> <<"b">>, deleted_files |-> <<"a">>]
    \* m3: a file was renamed, its content a is listed and tombstoned
    ELSE [source_peer_id |-> "PA", folder_id |-> "F2", sequence_number |-> 1,
          manifest_cid |-> NoCid,
          files |-> <<"a">>, deleted_files |-> <<"a">>]

Tasks == {"main", "cmd"}

VARIABLES
    state,          \* Arc<RwLock<DaemonState>>: the in-memory daemon state
    stateFile,      \* contents of backup-daemon-state.json
    store,          \* content CIDs held by the local node
    enabled,        \* AtomicBool enabled
    auto_delete_tombstones, \* configuration flag
    triggers,       \* messages buffered in the trigger channel
    pc,             \* position of each task
    walk,           \* locals of each task's process_manifest call
    unprocessed,    \* run_cycle: manifests of this cycle not yet walked
    to_retry,       \* retry_failed_manifests: entries being retried (head first)
    faults, manual, crashes, sent,  \* budget counters of the environment
    sync,           \* Arc<RwLock<SyncService>>: the sync engine
    node_manifests, \* manifests the sync engine uploaded to the local node, in order
    registry,       \* ManifestRegistry.manifests: folder id -> ManifestInfo
    fs,             \* the files under the watched folders: path -> content
    events,         \* the unbounded channel of SyncEvents
    fsops,          \* budget counter: file system changes made by the user
    registering,    \* ManifestInfos of commands that have not yet registered them
    notify,         \* backup notification task: pending manifests not yet notified
    removed,        \* the folder ids (Uuids) of folders that were removed
    allowed_ips,    \* ManifestServerConfig.allowed_ips
    requests,       \* budget counter: requests sent to the manifest server
    response,       \* the last request of the manifest server with its reply
    node,           \* Arc<RwLock<NodeService>>: state, restart_count, process_state
    alive,          \* whether the sidecar process of status.pid exists
    npc,            \* position of the call that holds the node's write lock
    ncall,          \* the call that holds the node's write lock
    mon,            \* position of the health monitor task
    nodeops,        \* budget counter: node commands of the user
    deaths,         \* budget counter: deaths of the sidecar process
    ready,          \* start_internal's local `ready`: the API answered in the window
    lookup,         \* one call of find_folder_for_path: its inputs and its result
    served,         \* the manifest CIDs the source peers serve
    outstanding,    \* per task: the network fetches spawned and not yet awaited
    media           \* MediaDownloadService: tasks, task_order, ids handed out

daemonVars == <<state, stateFile, store, enabled, auto_delete_tombstones,
                triggers, pc, walk, unprocessed, to_retry,
                faults, manual, crashes, sent>>

syncVars == <<sync, node_manifests, registry, fs, events, fsops,
              registering, notify, removed>>

serverVars == <<allowed_ips, requests, response>>

nodeVars == <<node, alive, npc, ncall, mon, nodeops, deaths, ready>>

pureVars == <<lookup, served>>

fetchVars == <<outstanding>>

mediaVars == <<media>>

otherVars == <<serverVars, nodeVars, pureVars, fetchVars, mediaVars>>

vars == <<daemonVars, syncVars, otherVars>>

(***************************************************************************)
(* Helpers on maps and sequences.                                          *)
(***************************************************************************)
EmptyMap == [x \in {} |-> 0]

MapInsert(m, k, v) == [x \in (DOMAIN m) \cup {k} |-> IF x = k THEN v ELSE m[x]]

MapRemove(m, k) == [x \in (DOMAIN m) \ {k} |-> m[x]]

Min(a, b) == IF a < b THEN a ELSE b

\* all sequences without repetition over the elements of S
RECURSIVE Perms(_)
Perms(S) ==
    IF S = {} THEN {<<>>}
    ELSE UNION {{<<x>> \o p : p \in Perms(S \ {x})} : x \in S}

(***************************************************************************)
(* DaemonState and its file.                                               *)
(***************************************************************************)
DefaultState ==
    [processed_manifests |-> EmptyMap,
     in_progress_manifests |-> EmptyMap,
     failed_manifests |-> <<>>,
     total_manifests_processed |-> 0]

FileAbsent == [kind |-> "absent"]
FilePartial == [kind |-> "partial"]
FileJson(st) == [kind |-> "json", data |-> st]

\* load_state followed by unwrap_or_default, as BackupDaemon::new calls it
LoadStateOrDefault(file) ==
    IF file.kind = "json" THEN file.data ELSE DefaultState

\* the files a failing std::fs::write can leave behind
FailedWriteFiles == {stateFile, FilePartial}

\* save_state returning Ok: the file holds the state as it is read at the call
SaveOk == stateFile' = FileJson(state)

\* save_state returning Err
SaveErr ==
    /\ faults < MaxFaults
    /\ faults' = faults + 1
    /\ stateFile' \in FailedWriteFiles

(***************************************************************************)
(* One process_manifest call (a walk of the manifest state machine).       *)
(***************************************************************************)
NoWalk ==
    [cid |-> NoCid, idx |-> 0, dl_err |-> FALSE,
     downloaded |-> 0, failed |-> 0, skipped_existing |-> 0,
     deleted |-> 0, del_failed |-> 0, not_found |-> 0]

NewWalk(cid) == [NoWalk EXCEPT !.cid = cid]

Files(t) == ManifestFile(walk[t].cid).files

Tombstones(t) == ManifestFile(walk[t].cid).deleted_files

InProgressManifest(cid) ==
    [source_peer_id |-> ManifestFile(cid).source_peer_id,
     sequence_number |-> ManifestFile(cid).sequence_number,
     total_files |-> Len(ManifestFile(cid).files),
     files_downloaded |-> 0,
     files_failed |-> 0]

ProcessedManifest(w) ==
    [source_peer_id |-> ManifestFile(w.cid).source_peer_id,
     sequence_number |-> ManifestFile(w.cid).sequence_number,
     folder_id |-> ManifestFile(w.cid).folder_id,
     file_count |-> w.downloaded + w.skipped_existing,
     deleted_count |-> w.deleted]

FailedManifest(cid, n) == [manifest_cid |-> cid, retry_count |-> n]

\* filter_unprocessed
filter_unprocessed(manifests) ==
    SelectSeq(manifests,
        LAMBDA m : /\ m \notin DOMAIN state.processed_manifests
                   /\ m \notin DOMAIN state.in_progress_manifests)

\* what discover_manifests can return: the descriptors the peers serve
Discoverable == UNION {Perms(S) : S \in SUBSET served}

(***************************************************************************)
(* Return of process_manifest to its caller: run_cycle's for-loop, the     *)
(* retry loop of retry_failed_manifests, or the retry_manifest command.    *)
(* st is the daemon state the returning step leaves.                       *)
(***************************************************************************)
Return(t, isErr, st) ==
    IF t = "cmd"
    THEN /\ pc' = [pc EXCEPT ![t] = "idle"]
         /\ walk' = [walk EXCEPT ![t] = NoWalk]
         /\ state' = st
         /\ UNCHANGED <<unprocessed, to_retry>>
    ELSE IF to_retry = <<>>
    THEN \* run_cycle: next manifest of the cycle, or the retry step
         /\ state' = st
         /\ UNCHANGED to_retry
         /\ IF unprocessed = <<>>
            THEN /\ pc' = [pc EXCEPT ![t] = "retry"]
                 /\ walk' = [walk EXCEPT ![t] = NoWalk]
                 /\ UNCHANGED unprocessed
            ELSE /\ pc' = [pc EXCEPT ![t] = "pm_fetch"]
                 /\ walk' = [walk EXCEPT ![t] = NewWalk(Head(unprocessed))]
                 /\ unprocessed' = Tail(unprocessed)
    ELSE \* retry_failed_manifests: a failed retry is pushed back, count + 1
         /\ state' = IF isErr
                     THEN [st EXCEPT !.failed_manifests =
                            Append(@, FailedManifest(Head(to_retry).manifest_cid,
                                                     Head(to_retry).retry_count + 1))]
                     ELSE st
         /\ to_retry' = Tail(to_retry)
         /\ UNCHANGED unprocessed
         /\ IF Tail(to_retry) = <<>>
            THEN /\ pc' = [pc EXCEPT ![t] = "cycle_save"]
                 /\ walk' = [walk EXCEPT ![t] = NoWalk]
            ELSE /\ pc' = [pc EXCEPT ![t] = "pm_fetch"]
                 /\ walk' = [walk EXCEPT ![t] =
                                NewWalk(Head(Tail(to_retry)).manifest_cid)]

(***************************************************************************)
(* process_manifest, step by step (one action per suspension point that    *)
(* reads or writes the daemon state, the state file or the local node).    *)
(***************************************************************************)
\* the step after download_manifest_files: enforce_deletions only if enabled
AfterDownloads == IF auto_delete_tombstones THEN "pm_delete" ELSE "pm_finalize"

\* steps 1-3: fetch and decode the manifest, validate_sequence_number (which
\* only logs), insert the in_progress record
PmFetch(t) ==
    /\ pc[t] = "pm_fetch"
    /\ \/ \* download or decode error: process_manifest returns Err
          /\ faults < MaxFaults
          /\ faults' = faults + 1
          /\ Return(t, TRUE, state)
          /\ UNCHANGED <<stateFile, store>>
       \/ /\ state' = [state EXCEPT !.in_progress_manifests =
                MapInsert(@, walk[t].cid, InProgressManifest(walk[t].cid))]
          /\ pc' = [pc EXCEPT ![t] = "pm_save"]
          /\ UNCHANGED <<stateFile, store, walk, unprocessed, to_retry, faults>>
    /\ UNCHANGED <<enabled, auto_delete_tombstones, triggers, manual, crashes, sent>>
    /\ UNCHANGED <<syncVars, otherVars>>

\* save_state after the in_progress insert; an error returns from process_manifest
PmSave(t) ==
    /\ pc[t] = "pm_save"
    /\ \/ /\ SaveOk
          /\ pc' = [pc EXCEPT ![t] =
                IF Files(t) = <<>> THEN AfterDownloads ELSE "pm_batch"]
          /\ UNCHANGED <<state, walk, unprocessed, to_retry, faults>>
       \/ /\ SaveErr
          /\ Return(t, TRUE, state)
    /\ UNCHANGED <<store, enabled, auto_delete_tombstones, triggers,
                   manual, crashes, sent>>
    /\ UNCHANGED <<syncVars, otherVars>>

\* the chunk of files download_manifest_files handles next
Chunk(t) ==
    {Files(t)[i] : i \in (walk[t].idx + 1) ..
                         Min(walk[t].idx + max_concurrent_downloads, Len(Files(t)))}

\* one batch of download_manifest_files: check_file_exists for each file of the
\* chunk (a failing list_data reads as absent), a network fetch for each file
\* not seen, then the progress update of the in_progress record
PmBatch(t) ==
    /\ pc[t] = "pm_batch"
    /\ \E seen \in SUBSET (Chunk(t) \cap store) :
       \E got \in SUBSET (Chunk(t) \ seen) :
          /\ store' = store \cup got
          /\ walk' = [walk EXCEPT
                ![t].idx = Min(@ + max_concurrent_downloads, Len(Files(t))),
                ![t].skipped_existing = @ + Cardinality(seen),
                ![t].downloaded = @ + Cardinality(got),
                ![t].failed = @ + Cardinality(Chunk(t) \ (seen \cup got))]
          /\ state' =
                LET own == ManifestFile(walk[t].cid).manifest_cid IN
                IF own # NoCid /\ own \in DOMAIN state.in_progress_manifests
                THEN [state EXCEPT
                        !.in_progress_manifests[own].files_downloaded =
                            walk'[t].downloaded + walk'[t].skipped_existing,
                        !.in_progress_manifests[own].files_failed =
                            walk'[t].failed]
                ELSE state
    /\ pc' = [pc EXCEPT ![t] = "pm_batch_save"]
    /\ UNCHANGED <<stateFile, enabled, auto_delete_tombstones, triggers,
                   unprocessed, to_retry, faults, manual, crashes, sent>>
    /\ UNCHANGED <<syncVars, otherVars>>

\* one batch of download_manifest_files, first half: check_file_exists for
\* each file of the chunk and tokio::spawn of a network fetch for each file
\* not seen
PmBatchSpawn(t) ==
    /\ pc[t] = "pm_batch"
    /\ \E seen \in SUBSET (Chunk(t) \cap store) :
          /\ outstanding' = [outstanding EXCEPT ![t] = Chunk(t) \ seen]
          /\ walk' = [walk EXCEPT ![t].skipped_existing = @ + Cardinality(seen)]
    /\ pc' = [pc EXCEPT ![t] = "pm_batch_await"]
    /\ UNCHANGED <<state, stateFile, store, enabled, auto_delete_tombstones, triggers,
                   unprocessed, to_retry, faults, manual, crashes, sent>>
    /\ UNCHANGED <<syncVars, serverVars, nodeVars, pureVars, mediaVars>>

\* one batch of download_manifest_files, second half: every spawned task is
\* awaited, then the progress update of the in_progress record
PmBatchAwait(t) ==
    /\ pc[t] = "pm_batch_await"
    /\ \E got \in SUBSET outstanding[t] :
          /\ store' = store \cup got
          /\ walk' = [walk EXCEPT
                ![t].idx = Min(@ + max_concurrent_downloads, Len(Files(t))),
                ![t].downloaded = @ + Cardinality(got),
                ![t].failed = @ + Cardinality(outstanding[t] \ got)]
          /\ state' =
                LET own == ManifestFile(walk[t].cid).manifest_cid IN
                IF own # NoCid /\ own \in DOMAIN state.in_progress_manifests
                THEN [state EXCEPT
                        !.in_progress_manifests[own].files_downloaded =
                            walk'[t].downloaded + walk'[t].skipped_existing,
                        !.in_progress_manifests[own].files_failed =
                            walk'[t].failed]
                ELSE state
    /\ outstanding' = [outstanding EXCEPT ![t] = {}]
    /\ pc' = [pc EXCEPT ![t] = "pm_batch_save"]
    /\ UNCHANGED <<stateFile, enabled, auto_delete_tombstones, triggers,
                   unprocessed, to_retry, faults, manual, crashes, sent>>
    /\ UNCHANGED <<syncVars, serverVars, nodeVars, pureVars, mediaVars>>

\* save_state after a batch; an error makes download_manifest_files return Err
PmBatchSave(t) ==
    /\ pc[t] = "pm_batch_save"
    /\ \/ /\ SaveOk
          /\ pc' = [pc EXCEPT ![t] =
                IF walk[t].idx < Len(Files(t)) THEN "pm_batch" ELSE AfterDownloads]
          /\ UNCHANGED <<walk, faults>>
       \/ /\ SaveErr
          /\ walk' = [walk EXCEPT ![t].dl_err = TRUE]
          /\ pc' = [pc EXCEPT ![t] = AfterDownloads]
    /\ UNCHANGED <<state, store, enabled, auto_delete_tombstones, triggers,
                   unprocessed, to_retry, manual, crashes, sent>>
    /\ UNCHANGED <<syncVars, otherVars>>

\* an enforce_deletions that calls delete_file without check_file_exists
RECURSIVE DeletionsWithoutExistsCheck(_, _, _, _)
DeletionsWithoutExistsCheck(tombs, i, st, w) ==
    IF i > Len(tombs) THEN {[store |-> st, walk |-> w]}
    ELSE DeletionsWithoutExistsCheck(tombs, i + 1, st \ {tombs[i]},
                                     [w EXCEPT !.deleted = @ + 1])
         \cup DeletionsWithoutExistsCheck(tombs, i + 1, st,
                                          [w EXCEPT !.del_failed = @ + 1])

\* enforce_deletions over the tombstones from position i on: the local store and
\* the counters it can end with
RECURSIVE Deletions(_, _, _, _)
Deletions(tombs, i, st, w) ==
    IF i > Len(tombs) THEN {[store |-> st, walk |-> w]}
    ELSE LET c == tombs[i] IN
         \* not seen locally (absent, or list_data failed)
         Deletions(tombs, i + 1, st, [w EXCEPT !.not_found = @ + 1])
         \cup
         (IF c \in st
          THEN \* seen locally: delete_file succeeds or fails
               Deletions(tombs, i + 1, st \ {c}, [w EXCEPT !.deleted = @ + 1])
               \cup Deletions(tombs, i + 1, st, [w EXCEPT !.del_failed = @ + 1])
          ELSE {})

\* step 5: enforce_deletions, called only when auto_delete_tombstones is set
PmDelete(t) ==
    /\ pc[t] = "pm_delete"
    /\ \E r \in Deletions(Tombstones(t), 1, store, walk[t]) :
          /\ store' = r.store
          /\ walk' = [walk EXCEPT ![t] = r.walk]
    /\ pc' = [pc EXCEPT ![t] = "pm_finalize"]
    /\ UNCHANGED <<state, stateFile, enabled, auto_delete_tombstones, triggers,
                   unprocessed, to_retry, faults, manual, crashes, sent>>
    /\ UNCHANGED <<syncVars, otherVars>>

\* a finalize that records the manifest as processed whatever the download
\* phase returned
FinalizedIgnoringResult(st, w) ==
    [st EXCEPT
        !.in_progress_manifests = MapRemove(@, w.cid),
        !.processed_manifests = MapInsert(@, w.cid, ProcessedManifest(w)),
        !.total_manifests_processed = @ + 1]

\* a finalize that fails the manifest when a file fetch or a tombstone
\* deletion failed
FinalizedFailingOnItemErrors(st, w) ==
    LET cleared == [st EXCEPT !.in_progress_manifests = MapRemove(@, w.cid)] IN
    IF ~w.dl_err /\ w.failed = 0 /\ w.del_failed = 0
    THEN [cleared EXCEPT
            !.processed_manifests = MapInsert(@, w.cid, ProcessedManifest(w)),
            !.total_manifests_processed = @ + 1]
    ELSE [cleared EXCEPT
            !.failed_manifests = Append(@, FailedManifest(w.cid, 0))]

\* finalize_manifest_processing up to drop(state): the state it leaves
Finalized(st, w) ==
    LET cleared == [st EXCEPT !.in_progress_manifests = MapRemove(@, w.cid)] IN
    IF ~w.dl_err
    THEN [cleared EXCEPT
            !.processed_manifests = MapInsert(@, w.cid, ProcessedManifest(w)),
            !.total_manifests_processed = @ + 1]
    ELSE [cleared EXCEPT
            !.failed_manifests = Append(@, FailedManifest(w.cid, 0))]

PmFinalize(t) ==
    /\ pc[t] = "pm_finalize"
    /\ state' = Finalized(state, walk[t])
    /\ pc' = [pc EXCEPT ![t] = "pm_final_save"]
    /\ UNCHANGED <<stateFile, store, enabled, auto_delete_tombstones, triggers,
                   walk, unprocessed, to_retry, faults, manual, crashes, sent>>
    /\ UNCHANGED <<syncVars, otherVars>>

\* the save_state that ends finalize_manifest_processing; its error is the
\* error of process_manifest
PmFinalSave(t) ==
    /\ pc[t] = "pm_final_save"
    /\ \/ /\ SaveOk
          /\ Return(t, FALSE, state)
          /\ UNCHANGED faults
       \/ /\ SaveErr
          /\ Return(t, TRUE, state)
    /\ UNCHANGED <<store, enabled, auto_delete_tombstones, triggers,
                   manual, crashes, sent>>
    /\ UNCHANGED <<syncVars, otherVars>>

(***************************************************************************)
(* The daemon main task: BackupDaemon::start and run_cycle.                *)
(***************************************************************************)
\* top of the loop: a disabled daemon sleeps 10 s, an enabled one runs a cycle
LoopCheck ==
    /\ pc["main"] = "loop"
    /\ pc' = [pc EXCEPT !["main"] = IF enabled THEN "discover" ELSE "sleep10"]
    /\ UNCHANGED <<state, stateFile, store, enabled, auto_delete_tombstones,
                   triggers, walk, unprocessed, to_retry,
                   faults, manual, crashes, sent>>
    /\ UNCHANGED <<syncVars, otherVars>>

Sleep10 ==
    /\ pc["main"] = "sleep10"
    /\ pc' = [pc EXCEPT !["main"] = "loop"]
    /\ UNCHANGED <<state, stateFile, store, enabled, auto_delete_tombstones,
                   triggers, walk, unprocessed, to_retry,
                   faults, manual, crashes, sent>>
    /\ UNCHANGED <<syncVars, otherVars>>

\* run_cycle steps 1-2: discover_manifests, filter_unprocessed, and the entry
\* into the for-loop over the unprocessed manifests
RunCycleDiscover ==
    /\ pc["main"] = "discover"
    /\ \E found \in Discoverable :
          LET work == filter_unprocessed(found) IN
          IF work = <<>>
          THEN /\ pc' = [pc EXCEPT !["main"] = "retry"]
               /\ UNCHANGED <<walk, unprocessed>>
          ELSE /\ pc' = [pc EXCEPT !["main"] = "pm_fetch"]
               /\ walk' = [walk EXCEPT !["main"] = NewWalk(Head(work))]
               /\ unprocessed' = Tail(work)
    /\ UNCHANGED <<state, stateFile, store, enabled, auto_delete_tombstones,
                   triggers, to_retry, faults, manual, crashes, sent>>
    /\ UNCHANGED <<syncVars, otherVars>>

\* retry_failed_manifests: the entries failed_manifests.retain removes
Eligible(failed) == SelectSeq(failed, LAMBDA m : m.retry_count < max_retries)

\* retry_failed_manifests: the entries failed_manifests.retain keeps
Exhausted(failed) == SelectSeq(failed, LAMBDA m : ~(m.retry_count < max_retries))

\* run_cycle step 4, first half: split failed_manifests and enter the retry loop
RetryCollect ==
    /\ pc["main"] = "retry"
    /\ state' = [state EXCEPT !.failed_manifests = Exhausted(@)]
    /\ to_retry' = Eligible(state.failed_manifests)
    /\ IF to_retry' = <<>>
       THEN /\ pc' = [pc EXCEPT !["main"] = "cycle_save"]
            /\ UNCHANGED walk
       ELSE /\ pc' = [pc EXCEPT !["main"] = "pm_fetch"]
            /\ walk' = [walk EXCEPT !["main"] = NewWalk(Head(to_retry').manifest_cid)]
    /\ UNCHANGED <<stateFile, store, enabled, auto_delete_tombstones, triggers,
                   unprocessed, faults, manual, crashes, sent>>
    /\ UNCHANGED <<syncVars, otherVars>>

\* the save_state ending retry_failed_manifests and the one ending run_cycle
\* (after last_poll_time); an error of either ends the cycle with Err
CycleSave ==
    /\ pc["main"] = "cycle_save"
    /\ \/ SaveOk /\ UNCHANGED faults
       \/ SaveErr
    /\ pc' = [pc EXCEPT !["main"] = "wait"]
    /\ UNCHANGED <<state, store, enabled, auto_delete_tombstones, triggers,
                   walk, unprocessed, to_retry, manual, crashes, sent>>
    /\ UNCHANGED <<syncVars, otherVars>>

\* tokio::select!, sleep(poll_interval) branch
PollElapsed ==
    /\ pc["main"] = "wait"
    /\ pc' = [pc EXCEPT !["main"] = "loop"]
    /\ UNCHANGED <<state, stateFile, store, enabled, auto_delete_tombstones,
                   triggers, walk, unprocessed, to_retry,
                   faults, manual, crashes, sent>>
    /\ UNCHANGED <<syncVars, otherVars>>

\* a main loop that takes the trigger from the channel but keeps waiting for
\* the poll timer
TriggerRecvKeepsWaiting ==
    /\ pc["main"] = "wait"
    /\ triggers > 0
    /\ triggers' = triggers - 1
    /\ UNCHANGED <<state, stateFile, store, enabled, auto_delete_tombstones,
                   pc, walk, unprocessed, to_retry, faults, manual, crashes, sent>>
    /\ UNCHANGED <<syncVars, otherVars>>

\* tokio::select!, trigger_rx.recv() branch
TriggerRecv ==
    /\ pc["main"] = "wait"
    /\ triggers > 0
    /\ triggers' = triggers - 1
    /\ pc' = [pc EXCEPT !["main"] = "loop"]
    /\ UNCHANGED <<state, stateFile, store, enabled, auto_delete_tombstones,
                   walk, unprocessed, to_retry, faults, manual, crashes, sent>>
    /\ UNCHANGED <<syncVars, otherVars>>

(***************************************************************************)
(* Requests from outside the main task.                                    *)
(***************************************************************************)
\* POST /trigger -> trigger_poll: send on the bounded channel (waits when full)
TriggerPoll ==
    /\ sent < MaxTriggers
    /\ triggers < TriggerCapacity
    /\ triggers' = triggers + 1
    /\ sent' = sent + 1
    /\ UNCHANGED <<state, stateFile, store, enabled, auto_delete_tombstones,
                   pc, walk, unprocessed, to_retry, faults, manual, crashes>>
    /\ UNCHANGED <<syncVars, otherVars>>

\* enable / resume and disable / pause
SetEnabled ==
    /\ enabled' = ~enabled
    /\ UNCHANGED <<state, stateFile, store, auto_delete_tombstones, triggers,
                   pc, walk, unprocessed, to_retry, faults, manual, crashes, sent>>
    /\ UNCHANGED <<syncVars, otherVars>>

\* the retry_failed_manifest command: retry_manifest drops the failed entries of
\* the CID and calls process_manifest on the command's own task
RetryManifest ==
    /\ pc["cmd"] = "idle"
    /\ manual < MaxManualRetries
    /\ manual' = manual + 1
    /\ \E cid \in served :
          /\ state' = [state EXCEPT !.failed_manifests =
                SelectSeq(@, LAMBDA m : m.manifest_cid # cid)]
          /\ walk' = [walk EXCEPT !["cmd"] = NewWalk(cid)]
    /\ pc' = [pc EXCEPT !["cmd"] = "pm_fetch"]
    /\ UNCHANGED <<stateFile, store, enabled, auto_delete_tombstones, triggers,
                   unprocessed, to_retry, faults, crashes, sent>>
    /\ UNCHANGED <<syncVars, otherVars>>

(***************************************************************************)
(* Process crash and restart (BackupDaemon::new reloads the state file).   *)
(***************************************************************************)
SavePcs == {"pm_save", "pm_batch_save", "pm_final_save", "cycle_save"}

\* the file a crash leaves: a task inside save_state may have truncated it,
\* written part of it, or completed the write
CrashFiles ==
    {stateFile} \cup
    (IF \E t \in Tasks : pc[t] \in SavePcs
     THEN {FilePartial, FileJson(state)} ELSE {})

Restart(file) ==
    /\ stateFile' = file
    /\ state' = LoadStateOrDefault(file)
    /\ pc' = [t \in Tasks |-> IF t = "main" THEN "loop" ELSE "idle"]
    /\ walk' = [t \in Tasks |-> NoWalk]
    /\ unprocessed' = <<>>
    /\ to_retry' = <<>>
    /\ triggers' = 0

\* (the sync engine stays as constructed in the specification with crashes)
Crash ==
    /\ crashes < MaxCrashes
    /\ crashes' = crashes + 1
    /\ \E file \in CrashFiles : Restart(file)
    /\ UNCHANGED <<store, enabled, auto_delete_tombstones, faults, manual, sent>>
    /\ UNCHANGED <<syncVars, otherVars>>

(***************************************************************************)
(* The Sync Engine: SyncService (services/sync.rs), the watched folders    *)
(* and the manifests it authors.                                           *)
(***************************************************************************)
Folders == {"F1", "F2"}

FolderPath(f) == IF f = "F1" THEN <<"s1">> ELSE <<"s2">>

\* the files the user can create under the watched folders (path components)
Paths == {<<"s1", "a">>, <<"s1", "b">>, <<"s2", "a">>}

Contents == {"x", "y"}

NoFile == "none"

NoFolder == "none"

\* Option<String> manifest_cid: None
NoManifest == <<>>

\* the CID the node returns for an uploaded file: a function of its content
CidOf(content) == IF content = "x" THEN "Qx" ELSE "Qy"

\* Path::starts_with, component by component
starts_with(p, base) ==
    /\ Len(base) <= Len(p)
    /\ SubSeq(p, 1, Len(base)) = base

\* Path::strip_prefix(base).unwrap_or(path)
strip_prefix(p, base) ==
    IF starts_with(p, base) THEN SubSeq(p, Len(base) + 1, Len(p)) ELSE p

\* SyncService::new
SyncServiceNew ==
    [folders |-> EmptyMap,
     upload_queue |-> <<>>,
     is_syncing |-> FALSE,
     synced_files |-> {},
     file_cid_mappings |-> [f \in Folders |-> <<>>],
     deleted_files |-> [f \in Folders |-> <<>>],
     changes_since_manifest |-> [f \in Folders |-> 0]]

\* the WatchedFolder add_folder creates
WatchedFolder(f) ==
    [path |-> FolderPath(f), enabled |-> TRUE,
     manifest_cid |-> NoManifest, manifest_sequence |-> 0,
     backup_ack_received |-> FALSE, pending_retry |-> FALSE,
     backup_synced_at |-> FALSE]

ScanFolderEvent(f) == [kind |-> "scan", folder_id |-> f]

FileChangedEvent(p) == [kind |-> "changed", path |-> p]

FileDeletedEvent(p) == [kind |-> "deleted", path |-> p]

\* find_folder_for_path: the first folder, in the iteration order of the
\* HashMap, whose path is a prefix; the ids it can return
find_folder_for_path(s, p) ==
    LET hits == {f \in DOMAIN s.folders : starts_with(p, s.folders[f].path)} IN
    IF hits = {} THEN {NoFolder} ELSE hits

\* queue_file
queue_file(s, path, folder_id) ==
    IF \/ path \in s.synced_files
       \/ \E i \in DOMAIN s.upload_queue : s.upload_queue[i].path = path
    THEN s
    ELSE [s EXCEPT !.upload_queue =
            Append(@, [path |-> path, folder_id |-> folder_id])]

RECURSIVE queue_files(_, _, _)
queue_files(s, files, folder_id) ==
    IF files = <<>> THEN s
    ELSE queue_files(queue_file(s, Head(files), folder_id), Tail(files), folder_id)

\* collect_files: the files that exist under a directory
collect_files(dir) == {p \in Paths : starts_with(p, dir) /\ fs[p] # NoFile}

\* scan_folder: the services it can leave (read_dir yields files in any order)
scan_folder(s, folder_id) ==
    IF folder_id \notin DOMAIN s.folders THEN {s}
    ELSE IF ~s.folders[folder_id].enabled THEN {s}
    ELSE {LET q == queue_files(s, files, folder_id) IN
          [q EXCEPT !.is_syncing = (q.upload_queue # <<>>)] :
             files \in Perms(collect_files(s.folders[folder_id].path))}

\* handle_event, FileCreated | FileModified arm
file_changed(s, path, folder_id) ==
    IF folder_id # NoFolder /\ s.folders[folder_id].enabled
    THEN queue_file(s, path, folder_id)
    ELSE s

\* a FileDeleted arm that counts the deletion of a file it never uploaded
file_deleted_counting_unmapped(s, path, folder_id) ==
    LET counted == IF folder_id = NoFolder THEN s
                   ELSE [s EXCEPT !.changes_since_manifest[folder_id] = @ + 1]
    IN [counted EXCEPT
            !.synced_files = @ \ {path},
            !.upload_queue = SelectSeq(@, LAMBDA q : q.path # path),
            !.file_cid_mappings =
                [f \in Folders |->
                    SelectSeq(s.file_cid_mappings[f], LAMBDA m : m.path # path)]]

\* handle_event, FileDeleted arm
file_deleted(s, path, folder_id) ==
    LET found == IF folder_id = NoFolder THEN <<>>
                 ELSE SelectSeq(s.file_cid_mappings[folder_id],
                                LAMBDA m : m.path = path)
        tracked ==
            IF found = <<>> THEN s
            ELSE [s EXCEPT
                    !.deleted_files[folder_id] =
                        Append(@, [path |-> strip_prefix(path, s.folders[folder_id].path),
                                   cid |-> found[1].cid]),
                    !.changes_since_manifest[folder_id] = @ + 1]
    IN [tracked EXCEPT
            !.synced_files = @ \ {path},
            !.upload_queue = SelectSeq(@, LAMBDA q : q.path # path),
            !.file_cid_mappings =
                [f \in Folders |->
                    SelectSeq(tracked.file_cid_mappings[f], LAMBDA m : m.path # path)]]

\* handle_event: the services it can leave
handle_event(s, event) ==
    IF event.kind = "scan" THEN scan_folder(s, event.folder_id)
    ELSE IF event.kind = "changed"
    THEN {file_changed(s, event.path, f) : f \in find_folder_for_path(s, event.path)}
    ELSE {file_deleted(s, event.path, f) : f \in find_folder_for_path(s, event.path)}

\* store_cid_mapping
store_cid_mapping(s, folder_id, path, cid) ==
    [s EXCEPT
        !.file_cid_mappings[folder_id] = Append(@, [path |-> path, cid |-> cid]),
        !.changes_since_manifest[folder_id] = @ + 1]

\* process_queue, upload loop: pops up to n files from the end of the queue;
\* each upload of an existing, not yet synced file succeeds or fails
RECURSIVE UploadBatch(_, _)
UploadBatch(s, n) ==
    IF n = 0 \/ s.upload_queue = <<>> THEN {s}
    ELSE LET pending == s.upload_queue[Len(s.upload_queue)]
             popped == [s EXCEPT !.upload_queue = SubSeq(@, 1, Len(@) - 1)]
         IN IF fs[pending.path] # NoFile /\ pending.path \notin popped.synced_files
            THEN UploadBatch(
                    store_cid_mapping(
                        [popped EXCEPT !.synced_files = @ \cup {pending.path}],
                        pending.folder_id, pending.path, CidOf(fs[pending.path])),
                    n - 1)
                 \cup UploadBatch(popped, n - 1)
            ELSE UploadBatch(popped, n - 1)

\* the ManifestFile generate_manifest builds for folder f
BuildManifest(s, f) ==
    LET mappings == s.file_cid_mappings[f] IN
    [folder_id |-> f,
     sequence_number |-> s.folders[f].manifest_sequence + 1,
     manifest_cid |-> NoManifest,
     files |-> [i \in DOMAIN mappings |->
                  [path |-> strip_prefix(mappings[i].path, s.folders[f].path),
                   cid |-> mappings[i].cid]],
     deleted_files |-> s.deleted_files[f]]

\* the CID the node returns for an uploaded manifest
ManifestCidOf(m) == <<m.folder_id, m.sequence_number>>

\* a generate_manifest that keeps the tombstones and the change counter
generate_manifest_without_drain(s, f) ==
    IF f \notin DOMAIN s.folders
    THEN {[sync |-> s, ok |-> FALSE, manifest |-> NoManifest]}
    ELSE {[sync |-> s, ok |-> FALSE, manifest |-> NoManifest],
          [sync |-> [s EXCEPT !.folders[f].manifest_sequence = @ + 1],
           ok |-> TRUE, manifest |-> BuildManifest(s, f)]}

\* generate_manifest: the ways it can return.  The sequence number is
\* incremented before the manifest file is written.
generate_manifest(s, f) ==
    IF f \notin DOMAIN s.folders
    THEN {[sync |-> s, ok |-> FALSE, manifest |-> NoManifest]}
    ELSE LET incremented == [s EXCEPT !.folders[f].manifest_sequence = @ + 1]
             written == [incremented EXCEPT
                            !.deleted_files[f] = <<>>,
                            !.changes_since_manifest[f] = 0]
         IN {\* get_info fails or reports no local node
             [sync |-> s, ok |-> FALSE, manifest |-> NoManifest],
             \* std::fs::write fails
             [sync |-> incremented, ok |-> FALSE, manifest |-> NoManifest],
             [sync |-> written, ok |-> TRUE, manifest |-> BuildManifest(s, f)]}

\* upload_manifest: the ways it can return (cid = NoManifest stands for Err)
upload_manifest(s, nd, f) ==
    UNION {
        IF ~g.ok THEN {[sync |-> g.sync, node |-> nd, cid |-> NoManifest]}
        ELSE {\* upload_file fails
              [sync |-> g.sync, node |-> nd, cid |-> NoManifest],
              [sync |-> [g.sync EXCEPT
                            !.folders[f].manifest_cid = ManifestCidOf(g.manifest),
                            !.folders[f].backup_ack_received = FALSE,
                            !.folders[f].pending_retry = TRUE],
               node |-> Append(nd, g.manifest),
               cid |-> ManifestCidOf(g.manifest)]}
        : g \in generate_manifest(s, f)}

\* process_queue, threshold branch: upload_manifest for each folder in turn
RECURSIVE upload_manifests(_, _, _)
upload_manifests(s, nd, fids) ==
    IF fids = <<>> THEN {[sync |-> s, node |-> nd]}
    ELSE UNION {upload_manifests(r.sync, r.node, Tail(fids)) :
                    r \in upload_manifest(s, nd, Head(fids))}

\* the folders whose change counter has reached the threshold
folders_needing_manifest(s) ==
    {f \in DOMAIN s.folders :
        s.changes_since_manifest[f] >= manifest_update_threshold}

\* remove_folder (an unknown id is an Err that changes nothing)
remove_folder(s, folder_id) ==
    IF folder_id \notin DOMAIN s.folders THEN s
    ELSE [s EXCEPT
            !.folders = MapRemove(@, folder_id),
            !.synced_files =
                {p \in @ : ~starts_with(p, s.folders[folder_id].path)}]

\* toggle_folder
toggle_folder(s, folder_id, enabled_) ==
    IF folder_id \notin DOMAIN s.folders THEN s
    ELSE [s EXCEPT !.folders[folder_id].enabled = enabled_]

\* add_folder command; the id is a fresh Uuid
AddFolder ==
    /\ Len(events) < MaxEvents
    /\ \E f \in Folders \ (DOMAIN sync.folders \cup removed) :
          /\ sync' = [sync EXCEPT !.folders = MapInsert(@, f, WatchedFolder(f))]
          /\ events' = Append(events, ScanFolderEvent(f))
    /\ UNCHANGED <<node_manifests, registry, fs, fsops, registering, notify, removed, daemonVars, otherVars>>

\* remove_folder command on a watched folder
RemoveFolder ==
    /\ \E f \in DOMAIN sync.folders :
          /\ sync' = remove_folder(sync, f)
          /\ removed' = removed \cup {f}
    /\ UNCHANGED <<node_manifests, registry, fs, events, fsops, registering, notify,
                   daemonVars, otherVars>>

\* toggle_folder command on a watched folder
ToggleFolder ==
    /\ \E f \in DOMAIN sync.folders :
          sync' = toggle_folder(sync, f, ~sync.folders[f].enabled)
    /\ UNCHANGED <<node_manifests, registry, fs, events, fsops, registering, notify,
                   removed, daemonVars, otherVars>>

\* the watcher callback sends an event for a path under a watched folder
Watched(p) == \E f \in DOMAIN sync.folders : starts_with(p, sync.folders[f].path)

\* the user creates or modifies a file
FsWrite ==
    /\ fsops < MaxFsOps
    /\ Len(events) < MaxEvents
    /\ fsops' = fsops + 1
    /\ \E p \in Paths : \E c \in Contents :
          /\ fs[p] # c
          /\ fs' = [fs EXCEPT ![p] = c]
          /\ events' = IF Watched(p) THEN Append(events, FileChangedEvent(p))
                       ELSE events
    /\ UNCHANGED <<sync, node_manifests, registry, registering, notify, removed, daemonVars, otherVars>>

\* the user deletes a file
FsDelete ==
    /\ fsops < MaxFsOps
    /\ Len(events) < MaxEvents
    /\ fsops' = fsops + 1
    /\ \E p \in Paths :
          /\ fs[p] # NoFile
          /\ fs' = [fs EXCEPT ![p] = NoFile]
          /\ events' = IF Watched(p) THEN Append(events, FileDeletedEvent(p))
                       ELSE events
    /\ UNCHANGED <<sync, node_manifests, registry, registering, notify, removed, daemonVars, otherVars>>

\* the event handler task: rx.recv() and handle_event under the write lock
HandleEvent ==
    /\ events # <<>>
    /\ events' = Tail(events)
    /\ sync' \in handle_event(sync, Head(events))
    /\ UNCHANGED <<node_manifests, registry, fs, fsops, registering, notify, removed, daemonVars, otherVars>>

\* sync_now command
SyncNow ==
    /\ ~sync.is_syncing
    /\ sync' = [sync EXCEPT !.is_syncing = TRUE]
    /\ \E order \in Perms({f \in DOMAIN sync.folders : sync.folders[f].enabled}) :
          events' = events \o [i \in DOMAIN order |-> ScanFolderEvent(order[i])]
    /\ Len(events') <= MaxEvents
    /\ UNCHANGED <<node_manifests, registry, fs, fsops, registering, notify, removed, daemonVars, otherVars>>

\* one tick of SyncManager::start_processing: process_queue under the write lock
ProcessQueue ==
    /\ IF sync.upload_queue = <<>> \/ ~sync.is_syncing
       THEN LET idle == [sync EXCEPT !.is_syncing = FALSE] IN
            /\ \A f \in folders_needing_manifest(idle) :
                  idle.folders[f].manifest_sequence < MaxSequence
            /\ \E order \in Perms(folders_needing_manifest(idle)) :
               \E r \in upload_manifests(idle, node_manifests, order) :
                  /\ sync' = r.sync
                  /\ node_manifests' = r.node
       ELSE /\ sync' \in UploadBatch(sync, batch_size)
            /\ UNCHANGED node_manifests
    /\ UNCHANGED <<registry, fs, events, fsops, registering, notify, removed, daemonVars, otherVars>>

\* generate_folder_manifest command: upload_manifest, then register_manifest
GenerateFolderManifest ==
    /\ \E f \in DOMAIN sync.folders :
          /\ sync.folders[f].manifest_sequence < MaxSequence
          /\ \E r \in upload_manifest(sync, node_manifests, f) :
                /\ sync' = r.sync
                /\ node_manifests' = r.node
                /\ registering' =
                      IF r.cid = NoManifest THEN registering
                      ELSE registering \cup
                              {[folder_id |-> f,
                                manifest_cid |-> r.cid,
                                sequence_number |-> r.sync.folders[f].manifest_sequence]}
    /\ UNCHANGED <<registry, fs, events, fsops, notify, removed, daemonVars, otherVars>>

\* ManifestRegistry::register_manifest
register_manifest(manifests, info) ==
    MapInsert(manifests, info.folder_id,
              [manifest_cid |-> info.manifest_cid,
               sequence_number |-> info.sequence_number])

\* generate_folder_manifest command, after drop(sync): the registry's write
\* lock and register_manifest
RegisterManifest ==
    /\ \E info \in registering :
          /\ registry' = register_manifest(registry, info)
          /\ registering' = registering \ {info}
    /\ UNCHANGED <<sync, node_manifests, fs, events, fsops, notify, removed, daemonVars, otherVars>>

\* SyncManager::get_pending_manifests
get_pending_manifests(s) ==
    {[folder_id |-> f, manifest_cid |-> s.folders[f].manifest_cid] :
        f \in {g \in DOMAIN s.folders :
                  /\ s.folders[g].pending_retry
                  /\ s.folders[g].manifest_cid # NoManifest}}

\* an acknowledge_manifest that leaves pending_retry as it is
acknowledge_manifest_keeping_retry(s, folder_id) ==
    IF folder_id \in DOMAIN s.folders
    THEN [s EXCEPT !.folders[folder_id].backup_ack_received = TRUE,
                   !.folders[folder_id].backup_synced_at = TRUE]
    ELSE s

\* acknowledge_manifest (backup_synced_at: TRUE stands for Some(now))
acknowledge_manifest(s, folder_id) ==
    IF folder_id \in DOMAIN s.folders
    THEN [s EXCEPT !.folders[folder_id].backup_ack_received = TRUE,
                   !.folders[folder_id].pending_retry = FALSE,
                   !.folders[folder_id].backup_synced_at = TRUE]
    ELSE s

\* backup notification task, after its sleep: collects the pending manifests
\* (the folders are iterated in any order)
NotifyCollect ==
    /\ notify = <<>>
    /\ get_pending_manifests(sync) # {}
    /\ notify' \in Perms(get_pending_manifests(sync))
    /\ UNCHANGED <<sync, node_manifests, registry, fs, events, fsops,
                   registering, removed, daemonVars, otherVars>>

\* backup notification task: notify_backup_peer for the next pending manifest
\* and, when the peer answered Ok, mark_manifest_notified
NotifyPeer ==
    /\ notify # <<>>
    /\ notify' = Tail(notify)
    /\ \/ sync' = acknowledge_manifest(sync, Head(notify).folder_id)
       \/ sync' = sync
    /\ UNCHANGED <<node_manifests, registry, fs, events, fsops,
                   registering, removed, daemonVars, otherVars>>

(***************************************************************************)
(* The manifest discovery server (manifest_server.rs).                     *)
(***************************************************************************)
Ips == {"10.0.0.1", "10.0.0.2"}
Body(kind, manifests) == [kind |-> kind, manifests |-> manifests]
NoResponse ==
    [route |-> "none", remote |-> "none", status |-> 0,
     body |-> Body("none", EmptyMap)]

\* the ip_filter of ManifestServer::start: TRUE when the request passes,
\* FALSE when it is rejected with the custom rejection UnauthorizedError
ip_filter(ip) ==
    IF allowed_ips = {} THEN FALSE
    ELSE ip \in allowed_ips

\* the reply to a rejection that no route recovers: start installs no
\* recover handler, and the server answers a custom rejection it does not
\* know with 500 Internal Server Error
UnhandledRejection == 500

\* handle_get_manifests: the discovery response
get_discovery_response == Body("discovery", registry)

\* GET /manifests
GetManifests ==
    /\ requests < MaxRequests
    /\ requests' = requests + 1
    /\ \E ip \in Ips :
          response' =
              IF ip_filter(ip)
              THEN [route |-> "manifests", remote |-> ip, status |-> 200,
                    body |-> get_discovery_response]
              ELSE [route |-> "manifests", remote |-> ip,
                    status |-> UnhandledRejection,
                    body |-> Body("rejection", EmptyMap)]
    /\ UNCHANGED <<allowed_ips, syncVars, daemonVars, nodeVars, pureVars, fetchVars, mediaVars>>

\* GET /health
GetHealth ==
    /\ requests < MaxRequests
    /\ requests' = requests + 1
    /\ \E ip \in Ips :
          response' = [route |-> "health", remote |-> ip, status |-> 200,
                       body |-> Body("health", EmptyMap)]
    /\ UNCHANGED <<allowed_ips, syncVars, daemonVars, nodeVars, pureVars, fetchVars, mediaVars>>

(***************************************************************************)
(* The node supervisor (node.rs, commands/node.rs).  Every command and the *)
(* monitor take the write lock of the NodeService for the whole call; a    *)
(* call that changes the state twice is modelled in as many steps, with    *)
(* npc its position, and no other call runs until npc is "idle" again.     *)
(***************************************************************************)
NodeStates == {"Stopped", "Starting", "Running", "Stopping", "Error"}
auto_restart == TRUE

\* NodeService::with_config
NodeServiceNew == [state |-> "Stopped", restart_count |-> 0, process |-> FALSE]

\* is_process_alive
is_process_alive(n) == n.process /\ n.state = "Running" /\ alive

\* mark_terminated
mark_terminated(n) == [n EXCEPT !.state = "Error", !.process = FALSE]

\* should_auto_restart
should_auto_restart(n) ==
    auto_restart /\ n.restart_count < max_restart_attempts

\* reset_restart_count
reset_restart_count(n) == [n EXCEPT !.restart_count = 0]

\* health_check, as far as it writes the service: the service it leaves
health_check(n) ==
    IF n.state = "Running" /\ ~is_process_alive(n) THEN mark_terminated(n)
    ELSE n

\* get_status
get_status(n) ==
    IF n.state = "Running" /\ ~is_process_alive(n) THEN mark_terminated(n)
    ELSE n

\* start_internal up to the spawn of the sidecar: refused when Running or
\* Starting, otherwise the state becomes Starting
StartInternal(call) ==
    IF node.state \in {"Running", "Starting"}
    THEN /\ npc' = "idle"
         /\ ncall' = "none"
         /\ UNCHANGED node
    ELSE /\ node' = [node EXCEPT !.state = "Starting"]
         /\ npc' = "spawn"
         /\ ncall' = call

\* stop up to the kill of the sidecar: the state becomes Stopping
StopBegin(call) ==
    /\ node' = [node EXCEPT !.state = "Stopping"]
    /\ npc' = "kill"
    /\ ncall' = call

\* start_node command
StartNode ==
    /\ npc = "idle"
    /\ nodeops < MaxNodeOps
    /\ nodeops' = nodeops + 1
    /\ StartInternal("start")
    /\ UNCHANGED <<alive, mon, deaths, ready, daemonVars, syncVars, serverVars, pureVars, fetchVars, mediaVars>>

\* start_internal from the creation of the data directory on: an error of
\* create_dir_all, sidecar or spawn returns with the state left at Starting;
\* otherwise the sidecar runs and the state becomes Running, whether its API
\* became ready or not
Spawn ==
    /\ npc = "spawn"
    /\ \/ /\ npc' = "idle"
          /\ ncall' = "none"
          /\ UNCHANGED <<node, alive, ready>>
       \/ /\ node' = [node EXCEPT !.state = "Running", !.process = TRUE]
          /\ alive' = TRUE
          /\ ready' \in BOOLEAN
          /\ IF ncall = "auto_restart"
             THEN npc' = "idle" /\ ncall' = "none"
             ELSE npc' = "status" /\ ncall' = ncall
    /\ UNCHANGED <<mon, nodeops, deaths, daemonVars, syncVars, serverVars, pureVars, fetchVars, mediaVars>>

\* the end of a command: its health checks and get_status
Status ==
    /\ npc = "status"
    /\ node' = get_status(health_check(node))
    /\ npc' = "idle"
    /\ ncall' = "none"
    /\ UNCHANGED <<alive, mon, nodeops, deaths, ready, daemonVars, syncVars, serverVars, pureVars, fetchVars, mediaVars>>

\* stop_node command
StopNode ==
    /\ npc = "idle"
    /\ nodeops < MaxNodeOps
    /\ node.state \notin {"Stopped", "Stopping"}
    /\ nodeops' = nodeops + 1
    /\ StopBegin("stop")
    /\ UNCHANGED <<alive, mon, deaths, ready, daemonVars, syncVars, serverVars, pureVars, fetchVars, mediaVars>>

\* stop from the kill on: process_state is taken; when kill fails the call
\* returns the error with the state left at Stopping, otherwise the state
\* becomes Stopped
Kill ==
    /\ npc = "kill"
    /\ \/ /\ node.process
          /\ node' = [node EXCEPT !.process = FALSE]
          /\ npc' = "idle"
          /\ ncall' = "none"
          /\ UNCHANGED alive
       \/ /\ node' = [node EXCEPT !.state = "Stopped", !.process = FALSE]
          /\ alive' = IF node.process THEN FALSE ELSE alive
          /\ IF ncall = "stop"
             THEN npc' = "status" /\ ncall' = ncall
             ELSE npc' = "restart" /\ ncall' = ncall
    /\ UNCHANGED <<mon, nodeops, deaths, ready, daemonVars, syncVars, serverVars, pureVars, fetchVars, mediaVars>>

\* restart: stops the node when it is Running
RestartBegin(call) ==
    IF node.state = "Running"
    THEN StopBegin(call)
    ELSE /\ npc' = "restart"
         /\ ncall' = call
         /\ UNCHANGED node

\* restart_node command
RestartNode ==
    /\ npc = "idle"
    /\ nodeops < MaxNodeOps
    /\ nodeops' = nodeops + 1
    /\ RestartBegin("restart")
    /\ UNCHANGED <<alive, mon, deaths, ready, daemonVars, syncVars, serverVars, pureVars, fetchVars, mediaVars>>

\* restart after the stop: restart_count += 1 and start
RestartStart ==
    /\ npc = "restart"
    /\ LET counted == [node EXCEPT !.restart_count = @ + 1] IN
       IF counted.state \in {"Running", "Starting"}
       THEN /\ node' = counted
            /\ npc' = "idle"
            /\ ncall' = "none"
       ELSE /\ node' = [counted EXCEPT !.state = "Starting"]
            /\ npc' = "spawn"
            /\ ncall' = ncall
    /\ UNCHANGED <<alive, mon, nodeops, deaths, ready, daemonVars, syncVars, serverVars, pureVars, fetchVars, mediaVars>>

\* get_node_status and health_check_node commands
HealthCheckNode ==
    /\ npc = "idle"
    /\ node' = get_status(health_check(node))
    /\ node' # node
    /\ UNCHANGED <<alive, npc, ncall, mon, nodeops, deaths,
                   ready, daemonVars, syncVars, serverVars, pureVars, fetchVars, mediaVars>>

\* the sidecar process dies
ProcessDies ==
    /\ alive
    /\ deaths < MaxDeaths
    /\ deaths' = deaths + 1
    /\ alive' = FALSE
    /\ UNCHANGED <<node, npc, ncall, mon, nodeops, ready, daemonVars, syncVars, serverVars, pureVars, fetchVars, mediaVars>>

\* one tick of NodeManager::start_monitoring, under the write lock: the
\* health check, the reset of the counter after five healthy minutes, and
\* the decision to restart a dead node
MonitorTick ==
    /\ npc = "idle"
    /\ mon = "sleep"
    /\ node.state = "Running"
    /\ IF is_process_alive(node)
       THEN /\ node' \in {node, reset_restart_count(node)}
            /\ node' # node
            /\ mon' = mon
       ELSE /\ node' = mark_terminated(health_check(node))
            /\ mon' = IF should_auto_restart(node') THEN "restart" ELSE "sleep"
    /\ UNCHANGED <<alive, npc, ncall, nodeops, deaths, ready, daemonVars, syncVars, serverVars, pureVars, fetchVars, mediaVars>>

\* the monitor after drop(node): takes the write lock again and restarts
MonitorRestart ==
    /\ npc = "idle"
    /\ mon = "restart"
    /\ mon' = "sleep"
    /\ RestartBegin("auto_restart")
    /\ UNCHANGED <<alive, nodeops, deaths, ready, daemonVars, syncVars, serverVars, pureVars, fetchVars, mediaVars>>

(***************************************************************************)
(* Attribution of an event path to a watched folder, over folders whose    *)
(* paths may nest (add_folder refuses only a path that is already watched). *)
(***************************************************************************)
WatchedPaths == {<<"s1">>, <<"s1", "d">>, <<"s2">>}
EventPaths == {<<"s1", "a">>, <<"s1", "d", "a">>, <<"s2", "a">>, <<"s3", "a">>}
FolderIds == {"F1", "F2", "F3"}
Pending == "pending"

NoLookup == [folders |-> EmptyMap, path |-> <<>>, result |-> Pending]

\* the folder maps add_folder can build: distinct paths under distinct ids
FolderMaps ==
    UNION {{m \in [ids -> WatchedPaths] :
                \A f, g \in ids : f # g => m[f] # m[g]} : ids \in SUBSET FolderIds}

\* a SyncService that watches the folders of a folder map
Watching(m) ==
    [SyncServiceNew EXCEPT
        !.folders = [f \in DOMAIN m |-> [WatchedFolder(f) EXCEPT !.path = m[f]]]]

Lookups ==
    {[folders |-> m, path |-> p, result |-> Pending] :
        m \in FolderMaps, p \in EventPaths}

\* find_folder_for_path is called on the event's path
FindFolder ==
    /\ lookup.result = Pending
    /\ lookup.folders # EmptyMap \/ lookup.path # <<>>
    /\ \E f \in find_folder_for_path(Watching(lookup.folders), lookup.path) :
          lookup' = [lookup EXCEPT !.result = f]
    /\ UNCHANGED <<served, daemonVars, syncVars, serverVars, nodeVars, fetchVars, mediaVars>>

(***************************************************************************)
(* The media download queue (services/media_download.rs).  Task ids are    *)
(* Uuids: the model hands out 1, 2, 3, ... so that an id is never reused.   *)
(***************************************************************************)
Finished == {"Completed", "Failed", "Cancelled"}

Active == {"Downloading", "PostProcessing"}

\* MediaDownloadService::new
\* (monitored: the ids whose yt-dlp process a monitor_download task waits for)
MediaServiceNew ==
    [tasks |-> EmptyMap, task_order |-> <<>>, issued |-> 0, monitored |-> {}]

\* queue_download
queue_download(m) ==
    LET id == m.issued + 1 IN
    [m EXCEPT !.tasks = MapInsert(@, id, "Queued"),
              !.task_order = Append(@, id),
              !.issued = id]

\* cancel_download
cancel_download(m, id) ==
    IF id \in DOMAIN m.tasks THEN [m EXCEPT !.tasks[id] = "Cancelled"] ELSE m

\* remove_task
remove_task(m, id) ==
    [m EXCEPT !.tasks = MapRemove(@, id),
              !.task_order = SelectSeq(@, LAMBDA x : x # id)]

\* a clear_completed that removes the completed tasks only
clear_completed_only(m) ==
    LET to_remove == {id \in DOMAIN m.tasks : m.tasks[id] = "Completed"} IN
    [m EXCEPT !.tasks = [id \in DOMAIN m.tasks \ to_remove |-> m.tasks[id]],
              !.task_order = SelectSeq(@, LAMBDA x : x \notin to_remove)]

\* clear_completed
clear_completed(m) ==
    LET to_remove == {id \in DOMAIN m.tasks : m.tasks[id] \in Finished} IN
    [m EXCEPT !.tasks = [id \in DOMAIN m.tasks \ to_remove |-> m.tasks[id]],
              !.task_order = SelectSeq(@, LAMBDA x : x \notin to_remove)]

\* get_queue_state: the tasks in task_order (ids without a task are skipped)
get_queue_state(m) ==
    LET known == SelectSeq(m.task_order, LAMBDA x : x \in DOMAIN m.tasks) IN
    [i \in DOMAIN known |-> [id |-> known[i], state |-> m.tasks[known[i]]]]

\* process_queue of the media service: the first queued tasks, in task_order,
\* that fit the free slots
queued_ids(m) ==
    LET active == Cardinality({id \in DOMAIN m.tasks : m.tasks[id] \in Active})
        queued == SelectSeq(m.task_order,
                     LAMBDA x : x \in DOMAIN m.tasks /\ m.tasks[x] = "Queued")
    IN IF active >= max_concurrent THEN <<>>
       ELSE SubSeq(queued, 1, Min(max_concurrent - active, Len(queued)))

\* start_download for each of ids: Downloading with a monitor task, or Failed
\* without yt-dlp
start_downloads(m, ids, installed) ==
    LET started == {ids[i] : i \in DOMAIN ids} IN
    [m EXCEPT !.tasks =
                [id \in DOMAIN m.tasks |->
                    IF id \in started
                    THEN (IF installed THEN "Downloading" ELSE "Failed")
                    ELSE m.tasks[id]],
              !.monitored = IF installed THEN @ \cup started ELSE @]

\* mark_completed and mark_failed: the task, if it is still there, takes the
\* state whatever state it has
mark(m, id, st) ==
    IF id \in DOMAIN m.tasks THEN [m EXCEPT !.tasks[id] = st] ELSE m

\* queue_media_download command
QueueDownload ==
    /\ media.issued < MaxTasks
    /\ media' = queue_download(media)
    /\ UNCHANGED <<daemonVars, syncVars, serverVars, nodeVars, pureVars, fetchVars>>

\* cancel_media_download command
CancelDownload ==
    /\ \E id \in DOMAIN media.tasks : media' = cancel_download(media, id)
    /\ UNCHANGED <<daemonVars, syncVars, serverVars, nodeVars, pureVars, fetchVars>>

\* remove_media_task command
RemoveTask ==
    /\ \E id \in DOMAIN media.tasks : media' = remove_task(media, id)
    /\ UNCHANGED <<daemonVars, syncVars, serverVars, nodeVars, pureVars, fetchVars>>

\* one tick of the background loop: process_queue
MediaProcessQueue ==
    /\ queued_ids(media) # <<>>
    /\ \E installed \in BOOLEAN :
          media' = start_downloads(media, queued_ids(media), installed)
    /\ UNCHANGED <<daemonVars, syncVars, serverVars, nodeVars, pureVars, fetchVars>>

\* monitor_download: the yt-dlp process exits (by itself or killed by a
\* cancel), and the monitor calls mark_completed or mark_failed
MonitorDownload ==
    /\ \E id \in media.monitored :
       \E st \in {"Completed", "Failed"} :
          media' = [mark(media, id, st) EXCEPT !.monitored = @ \ {id}]
    /\ UNCHANGED <<daemonVars, syncVars, serverVars, nodeVars, pureVars, fetchVars>>

\* clear_completed_downloads command
ClearCompleted ==
    /\ media' = clear_completed(media)
    /\ UNCHANGED <<daemonVars, syncVars, serverVars, nodeVars, pureVars, fetchVars>>

(***************************************************************************)
(* Specifications.                                                         *)
(***************************************************************************)
\* everything but the file system, which belongs to the user
InitServing(cids) ==
    /\ served = cids
    /\ state = DefaultState
    /\ stateFile = FileAbsent
    /\ store = {}
    /\ enabled = TRUE
    /\ auto_delete_tombstones \in BOOLEAN
    /\ triggers = 0
    /\ pc = [t \in Tasks |-> IF t = "main" THEN "loop" ELSE "idle"]
    /\ walk = [t \in Tasks |-> NoWalk]
    /\ unprocessed = <<>>
    /\ to_retry = <<>>
    /\ faults = 0
    /\ manual = 0
    /\ crashes = 0
    /\ sent = 0
    /\ sync = SyncServiceNew
    /\ node_manifests = <<>>
    /\ registry = EmptyMap
    /\ events = <<>>
    /\ fsops = 0
    /\ registering = {}
    /\ notify = <<>>
    /\ removed = {}
    /\ requests = 0
    /\ response = NoResponse
    /\ node = NodeServiceNew
    /\ alive = FALSE
    /\ npc = "idle"
    /\ ncall = "none"
    /\ mon = "sleep"
    /\ nodeops = 0
    /\ deaths = 0
    /\ ready = FALSE
    /\ outstanding = [t \in Tasks |-> {}]
    /\ media = MediaServiceNew

InitServices == InitServing(ManifestCids)

Init ==
    /\ InitServices
    /\ fs = [p \in Paths |-> NoFile]
    /\ allowed_ips = {}
    /\ lookup = NoLookup

WalkStep(t) ==
    \/ PmFetch(t)
    \/ PmSave(t)
    \/ PmBatch(t)
    \/ PmBatchSave(t)
    \/ PmDelete(t)
    \/ PmFinalize(t)
    \/ PmFinalSave(t)

\* the main task of an enabled daemon that receives no trigger
Next ==
    \/ LoopCheck
    \/ RunCycleDiscover
    \/ WalkStep("main")
    \/ RetryCollect
    \/ CycleSave
    \/ PollElapsed

Spec == Init /\ [][Next]_vars

\* the main task and the retry_failed_manifest command
NextManual ==
    \/ Next
    \/ RetryManifest
    \/ WalkStep("cmd")

SpecManual == Init /\ [][NextManual]_vars

\* process_manifest with the spawn and the await of a batch as separate steps
FetchWalkStep(t) ==
    \/ PmFetch(t)
    \/ PmSave(t)
    \/ PmBatchSpawn(t)
    \/ PmBatchAwait(t)
    \/ PmBatchSave(t)
    \/ PmDelete(t)
    \/ PmFinalize(t)
    \/ PmFinalSave(t)

\* the main task and the retry_failed_manifest command, batch by batch
NextFetch ==
    \/ LoopCheck
    \/ RunCycleDiscover
    \/ FetchWalkStep("main")
    \/ RetryCollect
    \/ CycleSave
    \/ PollElapsed
    \/ RetryManifest
    \/ FetchWalkStep("cmd")

SpecFetch == Init /\ [][NextFetch]_vars

\* the main task when the peers serve the manifest of a renamed file
InitRenamed ==
    /\ InitServing({"m3"})
    /\ fs = [p \in Paths |-> NoFile]
    /\ allowed_ips = {}
    /\ lookup = NoLookup

SpecRenamed == InitRenamed /\ [][Next]_vars

\* the main task and process crashes
NextCrash ==
    \/ Next
    \/ Crash

SpecCrash == Init /\ [][NextCrash]_vars

\* the main task, the trigger endpoint and the enable / disable commands
MainProgress ==
    \/ LoopCheck
    \/ Sleep10
    \/ RunCycleDiscover
    \/ WalkStep("main")
    \/ RetryCollect
    \/ CycleSave
    \/ TriggerRecv

NextTrigger ==
    \/ MainProgress
    \/ PollElapsed
    \/ TriggerPoll
    \/ SetEnabled

\* the runtime keeps polling the main task: whenever it can take a step other
\* than the expiry of the poll timer, it eventually takes one
SpecTrigger == Init /\ [][NextTrigger]_vars /\ WF_vars(MainProgress)

\* the sync engine: the folder commands, the user's file changes, the event
\* handler task and the queue processing task
NextSync ==
    \/ AddFolder
    \/ FsWrite
    \/ FsDelete
    \/ HandleEvent
    \/ SyncNow
    \/ ProcessQueue
    \/ GenerateFolderManifest

\* the daemon stays as constructed, under its default configuration
InitSync == Init /\ auto_delete_tombstones

SpecSync == InitSync /\ [][NextSync]_vars

\* The sync engine started over folders that already hold files, with the
\* watcher, the event handler task and the processing loop; manifests are
\* authored by the threshold path of process_queue only.
NextFiles ==
    \/ AddFolder
    \/ FsWrite
    \/ FsDelete
    \/ HandleEvent
    \/ SyncNow
    \/ ProcessQueue

InitFiles ==
    /\ InitServices
    /\ auto_delete_tombstones
    /\ fs \in [Paths -> {NoFile, "x"}]
    /\ allowed_ips = {}
    /\ lookup = NoLookup

SpecFiles == InitFiles /\ [][NextFiles]_vars

\* The manifest command with its registration step and the backup
\* notification task, over folders that hold no files.
NextCommands ==
    \/ AddFolder
    \/ HandleEvent
    \/ GenerateFolderManifest
    \/ RegisterManifest
    \/ NotifyCollect
    \/ NotifyPeer

SpecCommands == InitSync /\ [][NextCommands]_vars

\* the notification task's loop body with the backup peer answering Ok for
\* folder f
NotifyReaches(f) ==
    /\ NotifyPeer
    /\ Head(notify).folder_id = f
    /\ sync' = acknowledge_manifest(sync, f)

\* The notification task wakes every 30 s for ever and finishes each loop
\* body; the backup peer is reachable from some point on, so that a folder
\* notified again and again is notified with success again and again.
SpecNotify ==
    InitSync /\ [][NextCommands]_vars
        /\ WF_vars(NotifyCollect) /\ WF_vars(NotifyPeer)
        /\ \A f \in Folders : SF_vars(NotifyReaches(f))

\* The manifest discovery server over a registry filled by the manifest
\* command, under every configuration of the allow-list.
NextServer ==
    \/ AddFolder
    \/ HandleEvent
    \/ GenerateFolderManifest
    \/ RegisterManifest
    \/ GetManifests
    \/ GetHealth

InitServer ==
    /\ InitServices
    /\ auto_delete_tombstones
    /\ fs = [p \in Paths |-> NoFile]
    /\ allowed_ips \in SUBSET Ips
    /\ lookup = NoLookup

SpecServer == InitServer /\ [][NextServer]_vars

\* The node supervisor: the node commands, the health monitor and the
\* sidecar process.
NextNode ==
    \/ StartNode
    \/ Spawn
    \/ Status
    \/ StopNode
    \/ Kill
    \/ RestartNode
    \/ RestartStart
    \/ HealthCheckNode
    \/ ProcessDies
    \/ MonitorTick
    \/ MonitorRestart

SpecNode == InitSync /\ [][NextNode]_vars

\* The folder commands next to the event handler and the queue processor,
\* over folders that hold files.
NextFolders ==
    \/ AddFolder
    \/ RemoveFolder
    \/ ToggleFolder
    \/ FsWrite
    \/ FsDelete
    \/ HandleEvent
    \/ ProcessQueue

SpecFolders == InitFiles /\ [][NextFolders]_vars

\* The queue processor on its own: folders are added and files are written,
\* nobody deletes a file, asks for a manual sync or pauses, and every upload
\* the node is asked for succeeds.
ProcessQueueUploading ==
    /\ ProcessQueue
    /\ \A i \in DOMAIN sync.upload_queue :
          (i > Len(sync'.upload_queue) /\ fs[sync.upload_queue[i].path] # NoFile)
             => sync.upload_queue[i].path \in sync'.synced_files

NextQueue ==
    \/ AddFolder
    \/ FsWrite
    \/ HandleEvent
    \/ ProcessQueueUploading

\* the event handler task handles every event it has received, and the
\* processing task ticks on its interval for ever
SpecQueue ==
    InitFiles /\ [][NextQueue]_vars
        /\ WF_vars(HandleEvent) /\ WF_vars(ProcessQueueUploading)

\* the media download queue: its commands, the background loop and the
\* download monitors
NextMedia ==
    \/ QueueDownload
    \/ CancelDownload
    \/ RemoveTask
    \/ MediaProcessQueue
    \/ MonitorDownload
    \/ ClearCompleted

SpecMedia == InitSync /\ [][NextMedia]_vars

\* find_folder_for_path applied to every event path under every folder map
NextLookup == FindFolder

InitLookup ==
    /\ InitServices
    /\ auto_delete_tombstones
    /\ fs = [p \in Paths |-> NoFile]
    /\ allowed_ips = {}
    /\ lookup \in Lookups

SpecLookup == InitLookup /\ [][NextLookup]_vars

(***************************************************************************)
(* Properties of the backup daemon.                                        *)
(***************************************************************************)
WalkPcs == {"pm_fetch", "pm_save", "pm_batch", "pm_batch_save", "pm_delete",
            "pm_finalize", "pm_final_save"}

ProcessedCids == DOMAIN state.processed_manifests

InProgressCids == DOMAIN state.in_progress_manifests

FailedCids == {state.failed_manifests[i].manifest_cid :
                    i \in DOMAIN state.failed_manifests}

\* C2: no manifest CID is in more than one of processed_manifests,
\* in_progress_manifests and failed_manifests.
C2_DisjointPartitions ==
    /\ ProcessedCids \cap InProgressCids = {}
    /\ ProcessedCids \cap FailedCids = {}
    /\ InProgressCids \cap FailedCids = {}

\* C3: once a CID is in processed_manifests no task runs the manifest state
\* machine for it again (so it is moved into processed at most once): a walk
\* that has not yet finalized is never a walk of a processed CID.
C3_ProcessedNeverWalkedAgain ==
    \A t \in Tasks :
        pc[t] \in (WalkPcs \ {"pm_final_save"})
            => walk[t].cid \notin ProcessedCids

\* a manifest is stale when another processed manifest of the same source peer
\* and folder carries a sequence number at least as high
Stale(cid) ==
    \E p \in ProcessedCids \ {cid} :
        /\ state.processed_manifests[p].source_peer_id = ManifestFile(cid).source_peer_id
        /\ state.processed_manifests[p].folder_id = ManifestFile(cid).folder_id
        /\ ManifestFile(cid).sequence_number <= state.processed_manifests[p].sequence_number

\* C4: a decoded manifest that is stale is marked processed without a file
\* fetch or a deletion: no walk of a stale manifest ever stands in the
\* download or deletion phase or has issued a fetch or a delete.
C4_StaleManifestNotFetched ==
    \A t \in Tasks :
        (walk[t].cid # NoCid /\ Stale(walk[t].cid))
            => /\ pc[t] \notin {"pm_batch", "pm_batch_save", "pm_delete"}
               /\ walk[t].downloaded + walk[t].failed = 0
               /\ walk[t].deleted + walk[t].del_failed = 0

\* every file entry was found present or had a fetch attempted
AllFilesAttempted(w) ==
    w.skipped_existing + w.downloaded + w.failed = Len(ManifestFile(w.cid).files)

\* every tombstone was checked against the local store (and deleted if found)
AllTombstonesAttempted(w) ==
    w.not_found + w.deleted + w.del_failed = Len(ManifestFile(w.cid).deleted_files)

\* the step of task t that moves its manifest into processed_manifests
MovesToProcessed(t) ==
    /\ pc[t] = "pm_finalize"
    /\ pc'[t] = "pm_final_save"
    /\ state'.total_manifests_processed = state.total_manifests_processed + 1

\* C5 (as claimed): a manifest enters processed only after every file entry
\* was found present or had a fetch attempted and every tombstone was
\* attempted against local storage.
C5_ProcessedAfterAllAttempted ==
    [][\A t \in Tasks :
          MovesToProcessed(t) =>
              AllFilesAttempted(walk[t]) /\ AllTombstonesAttempted(walk[t])]_vars

\* C5 (amended): a manifest enters processed only after every file entry was
\* found present or had a fetch attempted; its tombstones have all been
\* attempted when auto_delete_tombstones is set, and none when it is not.
C5_ProcessedAfterFilesAndEnabledDeletions ==
    [][\A t \in Tasks :
          MovesToProcessed(t) =>
              /\ AllFilesAttempted(walk[t])
              /\ IF auto_delete_tombstones
                 THEN AllTombstonesAttempted(walk[t])
                 ELSE walk[t].not_found + walk[t].deleted + walk[t].del_failed = 0]_vars

\* C5 witness: a manifest with a tombstone was moved into processed after its
\* file was handled and its tombstone attempted.
C5_Witness ==
    /\ auto_delete_tombstones
    /\ pc["main"] = "pm_final_save"
    /\ walk["main"].cid = "m2"
    /\ "m2" \in ProcessedCids
    /\ AllFilesAttempted(walk["main"])
    /\ AllTombstonesAttempted(walk["main"])

\* the failed entries of a CID, in order
EntriesOf(failed, cid) == SelectSeq(failed, LAMBDA m : m.manifest_cid = cid)

\* the step in which the retry loop's walk of Head(to_retry) returns
RetryWalkReturns ==
    /\ pc["main"] \in WalkPcs
    /\ to_retry # <<>>
    /\ to_retry' = Tail(to_retry)

\* C6: a manifest taken from failed whose automatic retry fails again (it is
\* not in processed afterwards) is back in failed as one entry whose
\* retry_count is one greater than before the retry.
C6_RetryCountIncrements ==
    [][(RetryWalkReturns
            /\ Head(to_retry).manifest_cid \notin DOMAIN state'.processed_manifests)
        => EntriesOf(state'.failed_manifests, Head(to_retry).manifest_cid)
             = <<FailedManifest(Head(to_retry).manifest_cid,
                                Head(to_retry).retry_count + 1)>>]_vars

\* C7: a CID with a failed entry whose retry_count has reached max_retries is
\* not run through the state machine by the main task.
C7_ExhaustedNeverWalkedByMainLoop ==
    \A i \in DOMAIN state.failed_manifests :
        state.failed_manifests[i].retry_count >= max_retries
            => ~(/\ pc["main"] \in WalkPcs
                 /\ walk["main"].cid = state.failed_manifests[i].manifest_cid)

\* C8: at most one process_manifest call is executing at any time: while the
\* main task walks a manifest no other task walks one or writes the daemon
\* state or its file.
C8_SingleWalker ==
    Cardinality({t \in Tasks : pc[t] \in WalkPcs}) <= 1

\* C9: while the daemon is enabled, an accepted trigger leads to the start of a
\* cycle (the main task stands before discover_manifests) without the poll
\* timer having to expire.
C9_TriggerStartsCycle ==
    (triggers > 0 /\ enabled) ~> (pc["main"] = "discover" \/ ~enabled)

\* C9 witness: a trigger was taken from the channel by the waiting main task
\* and the cycle it caused is starting.
C9_Witness ==
    /\ pc["main"] = "discover"
    /\ sent > 0
    /\ triggers < sent

\* C10: after a crash the daemon state read from the state file at the next
\* start is the complete snapshot the file held before the interrupted write or
\* the complete snapshot that write was storing; it is never reset.
C10_CrashLeavesCompleteSnapshot ==
    [][crashes' # crashes =>
          state' \in {LoadStateOrDefault(stateFile), state}]_vars

(***************************************************************************)
(* Properties of the sync engine.                                          *)
(***************************************************************************)
\* the manifests of folder f the sync engine authored and uploaded, in order
Authored(f) == SelectSeq(node_manifests, LAMBDA m : m.folder_id = f)

\* C1: the k-th manifest the sync engine successfully authors for a folder
\* carries sequence number k (1, 2, 3, ... without gaps), also after authoring
\* attempts that failed.
C1_SequenceNumbersWithoutGaps ==
    \A f \in Folders :
        \A k \in DOMAIN Authored(f) : Authored(f)[k].sequence_number = k

\* the manifests uploaded to the node in the current step
NewManifests ==
    {node_manifests'[i] : i \in (Len(node_manifests) + 1) .. Len(node_manifests')}

\* C11: right after manifest authoring for a folder returned successfully the
\* folder's tombstone list is empty, its change counter is zero and its
\* manifest_cid is set (to the CID of the authored manifest).
C11_AuthoringDrainsFolder ==
    [][\A m \in NewManifests :
          /\ sync'.deleted_files[m.folder_id] = <<>>
          /\ sync'.changes_since_manifest[m.folder_id] = 0
          /\ sync'.folders[m.folder_id].manifest_cid # NoManifest
          /\ \/ sync'.folders[m.folder_id].manifest_cid = ManifestCidOf(m)
             \/ \E n \in NewManifests :
                   /\ n.folder_id = m.folder_id
                   /\ sync'.folders[m.folder_id].manifest_cid = ManifestCidOf(n)]_vars

\* C11 witness: a manifest carrying a tombstone was authored for F1, and F1's
\* tombstone list and change counter are empty with manifest_cid set to it.
C11_Witness ==
    /\ node_manifests # <<>>
    /\ LET m == node_manifests[Len(node_manifests)] IN
          /\ m.folder_id = "F1"
          /\ m.deleted_files # <<>>
          /\ sync.folders["F1"].manifest_cid = ManifestCidOf(m)
          /\ sync.deleted_files["F1"] = <<>>
          /\ sync.changes_since_manifest["F1"] = 0

\* the fields of a folder that manifest authoring writes
AuthoringState(s, f) ==
    [manifest_sequence |-> s.folders[f].manifest_sequence,
     deleted_files |-> s.deleted_files[f],
     changes_since_manifest |-> s.changes_since_manifest[f],
     manifest_cid |-> s.folders[f].manifest_cid,
     pending_retry |-> s.folders[f].pending_retry]

\* the current step is an upload_manifest(f) that returned an error
FailedAuthoring(f) ==
    /\ node_manifests' = node_manifests
    /\ \E r \in upload_manifest(sync, node_manifests, f) :
          r.cid = NoManifest /\ sync' = r.sync

\* C12: when manifest authoring for a folder fails, manifest_sequence, the
\* tombstone list, the change counter, manifest_cid and pending_retry of the
\* folder are all as they were before the attempt.
C12_FailedAuthoringKeepsPriorState ==
    [][\A f \in DOMAIN sync.folders :
          FailedAuthoring(f) =>
              AuthoringState(sync', f) = AuthoringState(sync, f)]_vars

\* the CIDs held in a sequence of records with a cid field
CidsIn(entries) == {entries[i].cid : i \in DOMAIN entries}

\* C13: for every folder, no CID is both in the folder's CID mapping and in
\* its pending tombstone list.
C13_MappingAndTombstonesDisjoint ==
    \A f \in Folders :
        CidsIn(sync.file_cid_mappings[f]) \cap CidsIn(sync.deleted_files[f]) = {}

\* the entries of every folder's CID mapping for a path
MappingsOf(p) ==
    [f \in Folders |-> SelectSeq(sync.file_cid_mappings[f], LAMBDA m : m.path = p)]

\* every event is handled and every queued upload is done
Quiescent == events = <<>> /\ sync.upload_queue = <<>>

\* C14: once the engine has handled the events of an uploaded file that was
\* replaced in place, the file has been uploaded again: its folder's CID
\* mapping holds exactly one entry for the path, carrying the CID of the
\* bytes now on disk.
C14_ModifiedFileIsUploadedAgain ==
    Quiescent =>
        \A p \in sync.synced_files :
            fs[p] # NoFile =>
                \E f \in Folders :
                    MappingsOf(p)[f] = <<[path |-> p, cid |-> CidOf(fs[p])]>>

\* the event handler task handles a FileDeleted event for a path that has no
\* entry in the CID mapping of the folder it lies in
DeleteOfUnmappedPath ==
    /\ events # <<>>
    /\ events' = Tail(events)
    /\ Head(events).kind = "deleted"
    /\ \A f \in find_folder_for_path(sync, Head(events).path) :
          /\ f # NoFolder
          /\ SelectSeq(sync.file_cid_mappings[f],
                       LAMBDA m : m.path = Head(events).path) = <<>>

C16_OnlyCurrentManifestClearsPendingRetry ==
    [][\A f \in DOMAIN sync.folders :
          (sync.folders[f].pending_retry /\ ~sync'.folders[f].pending_retry) =>
              /\ notify # <<>>
              /\ Head(notify) = [folder_id |-> f,
                                 manifest_cid |-> sync.folders[f].manifest_cid]]_vars

\* C17: for every folder id, the sequence number of the descriptor held in
\* the Manifest Registry never decreases.
C17_RegisteredSequenceNeverDecreases ==
    [][\A f \in DOMAIN registry :
          /\ f \in DOMAIN registry'
          /\ registry'[f].sequence_number >= registry[f].sequence_number]_vars

\* the current step is a request to the manifest server
Request(route) == requests' # requests /\ response'.route = route

\* C18: a GET /manifests whose remote IP is not in the allow-list (every
\* request when the allow-list is empty) is answered with status 401 and
\* never with registry content, while GET /health is answered for any
\* remote IP.
C18_UnlistedIpGets401 ==
    [][/\ (Request("manifests") /\ response'.remote \notin allowed_ips) =>
              /\ response'.status = 401
              /\ response'.body.kind # "discovery"
       /\ Request("health") => response'.status = 200]_vars

\* the transitions of the node state machine
NodeTransitions ==
    {<<"Stopped", "Starting">>, <<"Starting", "Running">>,
     <<"Running", "Stopping">>, <<"Stopping", "Stopped">>,
     <<"Running", "Error">>, <<"Error", "Starting">>}

\* C19: the node supervisor's state changes only along the transitions
\* Stopped->Starting, Starting->Running, Running->Stopping,
\* Stopping->Stopped, Running->Error and Error->Starting.
C19_OnlyListedTransitions ==
    [][node'.state # node.state =>
          <<node.state, node'.state>> \in NodeTransitions]_vars

\* C20: the health monitor never performs an automatic restart when
\* restart_count has reached max_restart_attempts.
C20_NoAutoRestartAtLimit ==
    [][(mon = "restart" /\ mon' = "sleep") =>
          node.restart_count < max_restart_attempts]_vars

\* the finalize step of task t, reached with every save_state of the walk
\* having succeeded
FinalizesAfterGoodSaves(t) ==
    /\ pc[t] = "pm_finalize"
    /\ pc'[t] = "pm_final_save"
    /\ ~walk[t].dl_err

\* the last save_state of the walk of task t succeeds
CompletesWalk(t) ==
    /\ pc[t] = "pm_final_save"
    /\ pc'[t] # "pm_final_save"
    /\ ~walk[t].dl_err
    /\ faults' = faults

\* C21: whenever state persistence succeeds, a manifest in which per-file
\* fetches or per-tombstone deletions returned errors still ends in processed
\* and is not added to failed.
C21_ItemErrorsDoNotFailManifest ==
    [][\A t \in Tasks :
          /\ FinalizesAfterGoodSaves(t) =>
                /\ walk[t].cid \in DOMAIN state'.processed_manifests
                /\ walk[t].cid \notin DOMAIN state'.in_progress_manifests
                /\ state'.failed_manifests = state.failed_manifests
          /\ CompletesWalk(t) =>
                /\ walk[t].cid \in DOMAIN state'.processed_manifests
                /\ state'.failed_manifests = state.failed_manifests
                /\ stateFile' = FileJson(state')]_vars

\* C21 witness: the walk of m2 ended in processed although the fetch of its
\* file and the deletion of its tombstone both returned errors.
C21_Witness ==
    /\ pc["main"] = "pm_final_save"
    /\ walk["main"].cid = "m2"
    /\ walk["main"].failed > 0
    /\ walk["main"].del_failed > 0
    /\ ~walk["main"].dl_err
    /\ "m2" \in ProcessedCids
    /\ "m2" \notin FailedCids

\* process_manifest of run_cycle's for-loop returns the error of the fetch or
\* of the decoding of the manifest
FetchOfNewManifestFails ==
    /\ pc["main"] = "pm_fetch"
    /\ to_retry = <<>>
    /\ faults' = faults + 1

\* C22: when a newly discovered manifest cannot be fetched or decoded, the
\* daemon records its CID in failed with retry_count = 0.
C22_UnfetchableManifestRecordedFailed ==
    [][FetchOfNewManifestFails =>
          \E i \in DOMAIN state'.failed_manifests :
              state'.failed_manifests[i] = FailedManifest(walk["main"].cid, 0)]_vars

\* C23: whenever the daemon main loop is waiting between cycles,
\* in_progress_manifests is empty.
C23_NoInProgressBetweenCycles ==
    pc["main"] = "wait" => InProgressCids = {}

\* the watched folders whose path is a prefix of p
PrefixFolders(m, p) == {f \in DOMAIN m : starts_with(p, m[f])}

\* the folder whose path is the longest prefix of p, NoFolder when none is
LongestPrefixFolder(m, p) ==
    IF PrefixFolders(m, p) = {} THEN NoFolder
    ELSE CHOOSE f \in PrefixFolders(m, p) :
            \A g \in PrefixFolders(m, p) : Len(m[g]) <= Len(m[f])

\* C24: every event is attributed to the watched folder whose path is the
\* longest prefix of the event's path, and to no folder when no watched path
\* is a prefix, also when one watched folder is nested inside another.
C24_LongestPrefixAttribution ==
    lookup.result # Pending =>
        lookup.result = LongestPrefixFolder(lookup.folders, lookup.path)

\* the Manifest Registry's descriptor for folder f is the folder's current one
RegistryCarriesCurrent(f) ==
    /\ f \in DOMAIN registry
    /\ registry[f] = [manifest_cid |-> sync.folders[f].manifest_cid,
                      sequence_number |-> sync.folders[f].manifest_sequence]

\* C25: after every successful manifest authoring, explicit or triggered by
\* the change counter, and once no registration is still under way, the
\* registry's descriptor for the folder carries the folder's current
\* manifest_cid and manifest_sequence.
C25_AuthoredManifestRegistered ==
    registering = {} =>
        \A f \in DOMAIN sync.folders :
            sync.folders[f].manifest_cid # NoManifest => RegistryCarriesCurrent(f)

\* the event handler is about to enqueue p for a Create or Modify event under
\* an enabled folder
EnqueuedByEvent(p) ==
    /\ events # <<>>
    /\ Head(events) = FileChangedEvent(p)
    /\ fs[p] # NoFile
    /\ p \notin sync.synced_files
    /\ \A i \in DOMAIN sync.upload_queue : sync.upload_queue[i].path # p
    /\ \E f \in DOMAIN sync.folders :
          starts_with(p, sync.folders[f].path) /\ sync.folders[f].enabled

\* C26: every file enqueued because of a Create or Modify event under an
\* enabled folder is eventually uploaded by the periodic queue processor,
\* when the file stays, uploads succeed and there is no pause, manual sync or
\* re-scan.
C26_EnqueuedFileEventuallyUploaded ==
    \A p \in Paths : EnqueuedByEvent(p) ~> (p \in sync.synced_files)

\* tombstone d of the i-th authored manifest names a file of an earlier
\* authored manifest of the same folder
TombstoneOfEarlierFile(i, d) ==
    \E j \in 1..(i - 1) :
        /\ node_manifests[j].folder_id = node_manifests[i].folder_id
        /\ \E k \in DOMAIN node_manifests[j].files :
              node_manifests[j].files[k] = d

\* C27: every tombstone entry in an authored manifest refers to a path and
\* CID that appeared in the file list of an earlier authored manifest of the
\* same folder.
C27_TombstonesNameAuthoredFiles ==
    \A i \in DOMAIN node_manifests :
        \A n \in DOMAIN node_manifests[i].deleted_files :
            TombstoneOfEarlierFile(i, node_manifests[i].deleted_files[n])

\* nothing of folder f is left in the sync engine
NothingLeftOf(f) ==
    /\ sync.file_cid_mappings[f] = <<>>
    /\ sync.deleted_files[f] = <<>>
    /\ sync.changes_since_manifest[f] = 0
    /\ \A i \in DOMAIN sync.upload_queue : sync.upload_queue[i].folder_id # f

\* C28: after remove_folder(f) succeeded, no CID mapping, tombstone,
\* change counter or queued upload of folder f remains, and no later queue
\* processing step creates a CID mapping under the removed folder id.
C28_RemovedFolderLeavesNothing == \A f \in removed : NothingLeftOf(f)

\* the event handler handles a file event whose path lies under the disabled
\* folder f
HandlesEventUnderDisabled(f) ==
    /\ events # <<>>
    /\ events' = Tail(events)
    /\ Head(events).kind \in {"changed", "deleted"}
    /\ starts_with(Head(events).path, sync.folders[f].path)
    /\ ~sync.folders[f].enabled

\* the step adds nothing to the upload queue and leaves the CID mapping, the
\* tombstones and the change counter of folder f as they were
DropsEventFor(f) ==
    /\ \A i \in DOMAIN sync'.upload_queue :
          \E j \in DOMAIN sync.upload_queue :
              sync'.upload_queue[i] = sync.upload_queue[j]
    /\ sync'.file_cid_mappings[f] = sync.file_cid_mappings[f]
    /\ sync'.deleted_files[f] = sync.deleted_files[f]
    /\ sync'.changes_since_manifest[f] = sync.changes_since_manifest[f]

\* C29: a Create, Modify or Delete event whose path lies under a disabled
\* folder is dropped: it adds nothing to the upload queue and changes neither
\* the folder's CID mapping, its tombstone list nor its change counter.
C29_DisabledFolderDropsEvents ==
    [][\A f \in DOMAIN sync.folders :
          HandlesEventUnderDisabled(f) => DropsEventFor(f)]_vars

\* the step uploads the file at position i of the upload queue
UploadedInStep(i) ==
    /\ sync.upload_queue[i].path \notin sync.synced_files
    /\ sync.upload_queue[i].path \in sync'.synced_files

\* the step stores the CID mapping of queue entry i before that of entry j
\* (store_cid_mapping appends, so the mappings of a tick are in upload order)
StoredBefore(i, j) ==
    LET f == sync.upload_queue[i].folder_id
        old == sync.file_cid_mappings[f]
        new == sync'.file_cid_mappings[f]
    IN \E a, b \in DOMAIN new :
          /\ Len(old) < a
          /\ a < b
          /\ new[a].path = sync.upload_queue[i].path
          /\ new[b].path = sync.upload_queue[j].path

\* C30: the upload queue is first-in first-out: the files a processing tick
\* uploads are uploaded in the order they were enqueued, at most batch_size
\* of them per tick.
C30_QueueIsFifo ==
    [][/\ \A i, j \in DOMAIN sync.upload_queue :
            (/\ i < j
             /\ sync.upload_queue[i].folder_id = sync.upload_queue[j].folder_id
             /\ UploadedInStep(i)
             /\ UploadedInStep(j)) => StoredBefore(i, j)
       /\ Cardinality(sync'.synced_files \ sync.synced_files) <= batch_size]_vars

\* the in_progress record of the manifest task t walks carries the progress of
\* the batches the walk has completed
ProgressRecorded(t) ==
    LET rec == state.in_progress_manifests[walk[t].cid] IN
    /\ rec.files_downloaded = walk[t].downloaded + walk[t].skipped_existing
    /\ rec.files_failed = walk[t].failed

\* C31: after each download batch of a manifest completes, the manifest's
\* in_progress record carries files_downloaded = files fetched or found
\* existing so far and files_failed = failed fetches so far.
C31_BatchProgressRecorded ==
    \A t \in Tasks :
        (/\ pc[t] = "pm_batch_save"
         /\ walk[t].cid \in DOMAIN state.in_progress_manifests)
            => ProgressRecorded(t)

\* the network fetches the daemon has spawned and not yet awaited
OutstandingFetches ==
    Cardinality(outstanding["main"]) + Cardinality(outstanding["cmd"])

\* C32: at no time are more than max_concurrent_downloads network fetches of
\* the daemon outstanding at once.
C32_FetchesBounded == OutstandingFetches <= max_concurrent_downloads

\* the delete_file calls task t's walk has issued
DeleteCalls(w) == w.deleted + w.del_failed

\* task t's enforce_deletions runs in this step
EnforcesDeletions(t) == pc[t] = "pm_delete" /\ pc'[t] = "pm_finalize"

\* the tombstone CIDs of the manifest task t processes that the local node holds
PresentTombstones(t) ==
    {Tombstones(t)[i] : i \in DOMAIN Tombstones(t)} \cap store

\* C33: the daemon calls delete(cid) on the local node only when
\* auto_delete_tombstones is true, only for a tombstone CID of the manifest
\* being processed, and only after the CID was found present locally; with
\* auto_delete_tombstones false no delete is ever issued.
C33_DeletesOnlyPresentTombstones ==
    [][/\ \A t \in Tasks :
            EnforcesDeletions(t) =>
                /\ auto_delete_tombstones
                /\ (store \ store') \subseteq PresentTombstones(t)
                /\ DeleteCalls(walk'[t]) - DeleteCalls(walk[t])
                      <= Cardinality(PresentTombstones(t))
       /\ (\A t \in Tasks : ~EnforcesDeletions(t)) => store \subseteq store'
       /\ ~auto_delete_tombstones => store \subseteq store']_vars

\* a walk of m2 has deleted the tombstoned file a, which the node held
C33_Witness ==
    /\ auto_delete_tombstones
    /\ pc["main"] = "pm_finalize"
    /\ walk["main"].cid = "m2"
    /\ walk["main"].deleted = 1
    /\ "a" \notin store

\* C34: the supervisor declares the node Running only after the node's health
\* endpoint has answered successfully within the readiness window.
C34_RunningOnlyWhenReady == node.state = "Running" => ready

\* C40: a failed start never strands the supervisor: once start has returned
\* (no call holds the service), the state is not left at Starting.
C40_FailedStartLeavesNoStarting == npc = "idle" => node.state # "Starting"

\* folder f carries a manifest whose notification is still due
PendingRetry(f) == f \in DOMAIN sync.folders /\ sync.folders[f].pending_retry

\* the notification of folder f has succeeded
RetryCleared(f) ==
    /\ f \in DOMAIN sync.folders
    /\ ~sync.folders[f].pending_retry
    /\ sync.folders[f].backup_synced_at

\* C35: a failed backup notification leaves pending_retry true and the
\* periodic loop keeps retrying: a folder with pending_retry true, with
\* notification enabled and the peer reachable from some point on, eventually
\* has pending_retry cleared and backup_synced_at set.
C35_PendingRetryEventuallyCleared ==
    /\ \A f \in Folders : PendingRetry(f) ~> RetryCleared(f)
    /\ [][\A f \in Folders :
            (/\ PendingRetry(f)
             /\ notify # <<>>
             /\ notify' = Tail(notify)
             /\ sync' = sync) => PendingRetry(f)']_vars

\* folder F1's manifest was notified with success after it had been pending
C35_Witness ==
    /\ "F1" \in DOMAIN sync.folders
    /\ sync.folders["F1"].manifest_cid # NoManifest
    /\ RetryCleared("F1")
    /\ notify = <<>>

\* the list is in insertion order: ids are handed out in increasing order
InInsertionOrder(listed) ==
    \A i, j \in DOMAIN listed : i < j => listed[i].id < listed[j].id

\* C36: after clear_completed the remaining tasks are exactly those that
\* were not Completed, Failed or Cancelled, and get_queue_state lists them in
\* their original insertion order.
C36_ClearCompletedKeepsOthersInOrder ==
    [][media' = clear_completed(media) =>
          /\ DOMAIN media'.tasks =
                {id \in DOMAIN media.tasks : media.tasks[id] \notin Finished}
          /\ \A id \in DOMAIN media'.tasks : media'.tasks[id] = media.tasks[id]
          /\ get_queue_state(media') =
                SelectSeq(get_queue_state(media),
                          LAMBDA t : t.state \notin Finished)
          /\ Len(get_queue_state(media')) = Cardinality(DOMAIN media'.tasks)
          /\ InInsertionOrder(get_queue_state(media'))]_vars

\* clear_completed has removed a finished task and left two others, which
\* get_queue_state lists
C36_Witness ==
    /\ media.issued = 3
    /\ DOMAIN media.tasks = {1, 3}
    /\ media.task_order = <<1, 3>>
    /\ media.tasks[1] = "Downloading"
    /\ media.tasks[3] = "Queued"

\* the CIDs in the file list of the manifest task t processes
FileCids(t) == {Files(t)[i] : i \in DOMAIN Files(t)}

\* C37: deletion enforcement never removes content the same manifest still
\* references: every CID of the manifest's file list that is present locally
\* after the downloads is still present after enforce_deletions, also when
\* the tombstone list names the same CID.
C37_DeletionsKeepReferencedContent ==
    [][\A t \in Tasks :
          EnforcesDeletions(t) => (FileCids(t) \cap store) \subseteq store']_vars

\* C38: failed_manifests holds at most one entry per manifest CID in every
\* reachable state, also after a retried manifest fails again and after a
\* state save fails during finalization.
C38_OneFailedEntryPerManifest ==
    \A i, j \in DOMAIN state.failed_manifests :
        state.failed_manifests[i].manifest_cid = state.failed_manifests[j].manifest_cid
            => i = j

\* C39: stats.total_manifests_processed equals the number of entries of
\* processed_manifests, under any sequence of cycles, automatic retries and
\* manual retries.
C39_ProcessedCountMatchesMap ==
    state.total_manifests_processed = Cardinality(DOMAIN state.processed_manifests)

====
